---- MODULE Spec2Model ----
(***************************************************************************)
(* A model of cortex/_lib/models.py: the plugin registry, the attachment   *)
(* of routines and builds to a composition through alias handlers, and     *)
(* the per-step scheduler ModelPluginBase.run_procedure.                   *)
(*                                                                         *)
(* The scheduler is modelled against the routine interface it uses         *)
(* (plugin_inputs, plugin_optional_inputs, _names, inputs, training_nets,  *)
(* a call that returns the outputs); the routines themselves, the data     *)
(* source, the optimizers and the handler classes are outside models.py.   *)
(*                                                                         *)
(* Scalars (losses, results) are written as strings ("1.2", "nan"); the    *)
(* absent marker None is the string "None".  Values in the ValuePool are   *)
(* naturals: a batch field holds the number of the batch it came from, a   *)
(* routine output holds the number of the iteration that produced it.      *)
(* A step that leaves run_procedure by an exception ends the run.          *)
(***************************************************************************)
EXTENDS Integers, Sequences, FiniteSets, TLC

\* ---------------------------------------------------------------- bounds
MaxProc == 2
MaxUpdate == 2
MaxSteps == 2
MaxPlugins == 2
MaxWrites == 1

\* ------------------------------------------------------- generic helpers
None == "None"

EmptyMap == [k \in {} |-> None]

Range(s) == {s[j] : j \in DOMAIN s}

\* ------------------------------------------------------- plugin registry
VARIABLES
    _BUILD_PLUGINS,    \* models.py 27: name -> build plugin
    _ROUTINE_PLUGINS,  \* models.py 26: name -> routine plugin
    MODEL_PLUGINS,     \* models.py 28: name -> model plugin
    regErr,            \* the exception the last register_* call raised
    regLast            \* the last register_* call: its kind, plugin name and identity

regVars == <<_BUILD_PLUGINS, _ROUTINE_PLUGINS, MODEL_PLUGINS, regErr, regLast>>

\* The plugin classes handed to register_*: an identity, the plugin_name,
\* whether the class defines a protected attribute, and whether its
\* required attributes are set.
PluginNames == {"ae", "gan"}

Plugins == [id : 1..MaxPlugins, plugin_name : PluginNames,
            protected : BOOLEAN, required : BOOLEAN]

check_pluginNoNameTest(plugin, D) ==
    IF plugin.protected THEN "AttributeError: protected"
    ELSE IF ~plugin.required THEN "AttributeError: required"
    ELSE "none"

\* models.py 31-50: the exception check_plugin raises for plugin against
\* table D, "none" if it returns.  The ValueError of line 33 is built but
\* never raised.
check_plugin(plugin, D) ==
    IF plugin.plugin_name \in DOMAIN D THEN "KeyError"
    ELSE IF plugin.protected THEN "AttributeError: protected"
    ELSE IF ~plugin.required THEN "AttributeError: required"
    ELSE "none"

\* D[plugin.plugin_name] = plugin
Store(D, plugin) ==
    [n \in DOMAIN D \cup {plugin.plugin_name} |->
        IF n = plugin.plugin_name THEN plugin ELSE D[n]]

\* models.py 53-60
register_build(plugin) ==
    LET e == check_plugin(plugin, _BUILD_PLUGINS)
    IN  /\ regErr' = e
        /\ regLast' = [kind |-> "build", name |-> plugin.plugin_name, id |-> plugin.id]
        /\ _BUILD_PLUGINS' = IF e = "none" THEN Store(_BUILD_PLUGINS, plugin)
                             ELSE _BUILD_PLUGINS
        /\ UNCHANGED <<_ROUTINE_PLUGINS, MODEL_PLUGINS>>

\* models.py 63-70
register_routine(plugin) ==
    LET e == check_plugin(plugin, _ROUTINE_PLUGINS)
    IN  /\ regErr' = e
        /\ regLast' = [kind |-> "routine", name |-> plugin.plugin_name, id |-> plugin.id]
        /\ _ROUTINE_PLUGINS' = IF e = "none" THEN Store(_ROUTINE_PLUGINS, plugin)
                               ELSE _ROUTINE_PLUGINS
        /\ UNCHANGED <<_BUILD_PLUGINS, MODEL_PLUGINS>>

\* models.py 73-80
register_model(plugin) ==
    LET e == check_plugin(plugin, MODEL_PLUGINS)
    IN  /\ regErr' = e
        /\ regLast' = [kind |-> "model", name |-> plugin.plugin_name, id |-> plugin.id]
        /\ MODEL_PLUGINS' = IF e = "none" THEN Store(MODEL_PLUGINS, plugin)
                            ELSE MODEL_PLUGINS
        /\ UNCHANGED <<_BUILD_PLUGINS, _ROUTINE_PLUGINS>>

RegInit ==
    /\ _BUILD_PLUGINS = EmptyMap
    /\ _ROUTINE_PLUGINS = EmptyMap
    /\ MODEL_PLUGINS = EmptyMap
    /\ regErr = "none"
    /\ regLast = [kind |-> "none", name |-> None, id |-> 0]

\* ------------------------------------------------- discovery (find_models)
VARIABLES
    comp,      \* per model plugin identity: the kinds of its _routines and _builds items
    findPc,    \* where find_models stands: import, loop, done, raised
    keys,      \* the part of list(MODEL_PLUGINS.keys()) still to visit
    snapshot,  \* MODEL_PLUGINS when the keys were listed
    checked,   \* the names whose check() calls both returned or were caught
    warned     \* the names a warning was logged for

discVars == <<comp, findPc, keys, snapshot, checked, warned>>

\* What an item of _routines or _builds can be an instance of.
StageKinds == {"RoutinePluginBase", "BuildPluginBase", "other"}

\* The items a composition holds: one routine slot and one build slot.
Compositions == [routines : [{"r"} -> StageKinds], builds : [{"b"} -> StageKinds]]

\* models.py 249-260: ModelPluginBase.check; the exception it raises, or
\* "none".
check(m) ==
    IF \E key \in DOMAIN m.routines : m.routines[key] # "RoutinePluginBase"
    THEN "ValueError"
    ELSE IF \E key \in DOMAIN m.builds : m.builds[key] # "BuildPluginBase"
    THEN "ValueError"
    ELSE "none"

\* MODEL_PLUGINS.pop(k)
Pop(D, k) == [n \in DOMAIN D \ {k} |-> D[n]]

\* The orders list(D.keys()) can have: any order of registration.
KeyLists(D) ==
    {s \in UNION {[1..n -> DOMAIN D] : n \in {Cardinality(DOMAIN D)}} :
        \A i, j \in DOMAIN s : i # j => s[i] # s[j]}

DiscInit(c) ==
    /\ comp = c
    /\ findPc = "import"
    /\ keys = <<>>
    /\ snapshot = EmptyMap
    /\ checked = {}
    /\ warned = {}

\* The compositions of the other specifications pass their checks.
SoundComposition ==
    [routines |-> [k \in {"r"} |-> "RoutinePluginBase"],
     builds |-> [k \in {"b"} |-> "BuildPluginBase"]]

\* models.py 506-507: the imports register the model plugins.
FindImport(plugin) ==
    /\ findPc = "import"
    /\ register_model(plugin)
    /\ UNCHANGED discVars

\* models.py 509-510: keys = list(MODEL_PLUGINS.keys())
FindKeys ==
    /\ findPc = "import"
    /\ \E s \in KeyLists(MODEL_PLUGINS) : keys' = s
    /\ snapshot' = MODEL_PLUGINS
    /\ findPc' = IF DOMAIN MODEL_PLUGINS = {} THEN "done" ELSE "loop"
    /\ UNCHANGED <<comp, checked, warned, regVars>>

\* models.py 511-518: one pass of the loop.  v.check() is called once
\* outside the try (line 513), then again inside it (line 515).
FindCheck ==
    /\ findPc = "loop"
    /\ LET k == Head(keys)
           v == MODEL_PLUGINS[k]
           first == check(comp[v.id])
           second == check(comp[v.id])
       IN  IF first # "none"
           THEN /\ findPc' = "raised"
                /\ UNCHANGED <<keys, checked, warned, regVars>>
           ELSE /\ keys' = Tail(keys)
                /\ checked' = checked \cup {k}
                /\ findPc' = IF Tail(keys) = <<>> THEN "done" ELSE "loop"
                /\ IF second # "none"
                   THEN /\ warned' = warned \cup {k}
                        /\ MODEL_PLUGINS' = Pop(MODEL_PLUGINS, k)
                   ELSE UNCHANGED <<warned, MODEL_PLUGINS>>
                /\ UNCHANGED <<_BUILD_PLUGINS, _ROUTINE_PLUGINS, regErr, regLast>>
    /\ UNCHANGED <<comp, snapshot>>

\* ------------------------------------------- composition and alias handlers
VARIABLES
    canon,    \* the composition's maps _kwargs, _nets, _vars, _help
    href,     \* per stage instance and namespace: the AliasHandler it holds
    heap,     \* the AliasHandler objects: the map each wraps and its aliases
    attach,   \* per stage instance: "new", "ok", or "KeyError" of its attach
    aliases,  \* per stage instance: the _aliases it was constructed with
    aliasLog, \* the set_alias calls made on the handlers an instance now holds
    writes,   \* number of writes made through the handlers
    unpacked  \* what the last unpack_args call was given and returned

aliasVars == <<canon, href, heap, attach, aliases, aliasLog, writes, unpacked>>

Namespaces == {"kwargs", "nets", "vars", "help"}

\* Stage instances of the composition: two routines of one plugin class and
\* one build.
RoutineInsts == {"r1", "r2"}
BuildInsts == {"b1"}
Insts == RoutineInsts \cup BuildInsts

\* Declared roles of the plugin classes.
plugin_nets(inst) == {"net"}
plugin_vars(inst) == {"var"}
plugin_kwargs(inst) == IF inst \in BuildInsts THEN {"dim", "size"} ELSE {"dim"}

\* The **aliases a stage can be constructed with, in keyword order.
AliasChoices ==
    { <<>>,
      << <<"net", "A">> >>,
      << <<"var", "A">>, <<"net", "B">> >>,
      << <<"dim", "B">>, <<"bogus", "A">>, <<"net", "A">> >> }

\* The names a get or a set may use.
Names == {"A", "B", "net"}
Values == {"v1", "v2"}

KeyNotFound == "KeyNotFound"

NoHandler == <<"none", "none">>

\* AliasHandler(handler): wraps `handler`, no aliases yet.
AliasHandler(target) == [target |-> target, aliases |-> EmptyMap]

\* AliasHandler.set_alias(local, canonical)
set_alias(h, local, canonical) ==
    [h EXCEPT !.aliases = [k \in DOMAIN h.aliases \cup {local} |->
                              IF k = local THEN canonical ELSE h.aliases[k]]]

\* The canonical name a handler resolves `local` to.
resolve(h, local) ==
    IF local \in DOMAIN h.aliases THEN h.aliases[local] ELSE local

\* AliasHandler.get(local) against the maps C: the value, or KeyNotFound.
get(C, h, local) ==
    IF resolve(h, local) \in DOMAIN C[h.target] THEN C[h.target][resolve(h, local)]
    ELSE KeyNotFound

\* AliasHandler.set(local, value): the maps after the write.
set(C, h, local, v) ==
    [C EXCEPT ![h.target] =
        [k \in DOMAIN C[h.target] \cup {resolve(h, local)} |->
            IF k = resolve(h, local) THEN v ELSE C[h.target][k]]]

AliasInit ==
    /\ canon = [ns \in Namespaces |-> EmptyMap]
    /\ href = [i \in Insts |-> [ns \in Namespaces |-> NoHandler]]
    /\ heap = [hid \in Insts \X Namespaces |-> AliasHandler("none")]
    /\ attach = [i \in Insts |-> "new"]
    /\ aliases = [i \in Insts |-> <<>>]
    /\ aliasLog = {}
    /\ writes = 0
    /\ unpacked = [kwargs |-> EmptyMap, builds |-> EmptyMap, routines |-> EmptyMap]


HandlerTargetKwargs(ns) == "kwargs"

\* The map of the composition the handler of namespace ns wraps
\* (models.py 219-222, 236-238: AliasHandler(self.kwargs), (self._nets), ...).
HandlerTarget(ns) == ns

\* The object a fresh AliasHandler(...) of an instance is: one per instance
\* and namespace, replacing the one the instance held.
NewHandler(inst, ns) == <<inst, ns>>

\* models.py 225-233: the namespaces in which _add_routine binds alias k;
\* none when it raises KeyError(k, v).
RoutineAliasTargets(inst, k) ==
    IF k \in plugin_nets(inst) THEN {"nets"}
    ELSE IF k \in plugin_vars(inst) THEN {"vars"}
    ELSE IF k \in plugin_kwargs(inst) THEN {"kwargs", "help"}
    ELSE {}

BuildAliasTargetsAsRoutine(inst, k) == RoutineAliasTargets(inst, k)

\* models.py 241-247: the same for _add_build, which has no vars.
BuildAliasTargets(inst, k) ==
    IF k \in plugin_nets(inst) THEN {"nets"}
    ELSE IF k \in plugin_kwargs(inst) THEN {"kwargs", "help"}
    ELSE {}

\* The loop `for k, v in stage._aliases.items()`: the handlers and the
\* set_alias calls made when it ends or raises.
RECURSIVE AddAliases(_, _, _, _, _)
AddAliases(inst, isRoutine, al, H, L) ==
    IF al = <<>> THEN [heap |-> H, log |-> L, err |-> "ok"]
    ELSE LET k == al[1][1]
             v == al[1][2]
             nss == IF isRoutine THEN RoutineAliasTargets(inst, k)
                    ELSE BuildAliasTargets(inst, k)
             hids == {NewHandler(inst, ns) : ns \in nss}
         IN  IF nss = {} THEN [heap |-> H, log |-> L, err |-> "KeyError"]
             ELSE AddAliases(inst, isRoutine, Tail(al),
                     [hid \in DOMAIN H |->
                         IF hid \in hids THEN set_alias(H[hid], k, v) ELSE H[hid]],
                     L \cup {<<inst, ns, k, v>> : ns \in nss})

\* Attach a stage: fresh handlers for the namespaces nss, then the aliases.
Attach(inst, isRoutine, nss, al) ==
    LET H0 == [hid \in DOMAIN heap |->
                  IF \E ns \in nss : hid = NewHandler(inst, ns)
                  THEN AliasHandler(HandlerTarget(
                          CHOOSE ns \in nss : hid = NewHandler(inst, ns)))
                  ELSE heap[hid]]
        L0 == {c \in aliasLog : c[1] # inst}
        r == AddAliases(inst, isRoutine, al, H0, L0)
    IN  /\ href' = [href EXCEPT ![inst] =
                      [ns \in Namespaces |->
                          IF ns \in nss THEN NewHandler(inst, ns) ELSE href[inst][ns]]]
        /\ heap' = r.heap
        /\ aliasLog' = r.log
        /\ attach' = [attach EXCEPT ![inst] = r.err]
        /\ aliases' = [aliases EXCEPT ![inst] = al]
        /\ UNCHANGED <<canon, writes, unpacked>>

\* models.py 218-233: a routine constructed with **al and assigned to the
\* composition.
add_routine(inst, al) ==
    /\ inst \in RoutineInsts
    /\ Attach(inst, TRUE, {"kwargs", "nets", "vars", "help"}, al)

\* models.py 235-247: the same for a build.
add_build(inst, al) ==
    /\ inst \in BuildInsts
    /\ Attach(inst, FALSE, {"kwargs", "nets", "help"}, al)

\* A write through the handler an instance holds for a namespace.
AliasSet(inst, ns, name, v) ==
    /\ href[inst][ns] # NoHandler
    /\ writes < MaxWrites
    /\ canon' = set(canon, heap[href[inst][ns]], name, v)
    /\ writes' = writes + 1
    /\ UNCHANGED <<href, heap, attach, aliases, aliasLog, unpacked>>

\* ------------------------------------------------ the global kwarg table
\* AliasHandler.__contains__(local): membership after alias resolution.
contains(C, h, local) == resolve(h, local) \in DOMAIN C[h.target]

\* The default a plugin class declares for a parameter.
Default(inst, k) == IF inst \in BuildInsts THEN "v1" ELSE "v2"

\* The stages the composition holds, builds first (models.py 273-277).
Attached(insts) == {i \in insts : attach[i] = "ok"}

\* models.py 264-271: obj.kwargs[k] = v for every declared parameter; a
\* second default for a name is refused with ValueError, which is logged.
RECURSIVE add_kwargs(_, _, _)
add_kwargs(C, inst, ks) ==
    IF ks = {} THEN C
    ELSE LET k == CHOOSE x \in ks : TRUE
             h == heap[href[inst]["kwargs"]]
         IN  add_kwargs(IF contains(C, h, k) THEN C ELSE set(C, h, k, Default(inst, k)),
                        inst, ks \ {k})

RECURSIVE AddAllKwargs(_, _)
AddAllKwargs(C, insts) ==
    IF insts = {} THEN C
    ELSE LET i == CHOOSE x \in insts :
                     x \in BuildInsts \/ insts \cap BuildInsts = {}
         IN  AddAllKwargs(add_kwargs(C, i, plugin_kwargs(i)), insts \ {i})

\* models.py 262-277: ModelPluginBase._set_kwargs
set_kwargs ==
    /\ Attached(Insts) # {}
    /\ canon' = AddAllKwargs(canon, Attached(Insts))
    /\ canon' # canon
    /\ UNCHANGED <<href, heap, attach, aliases, aliasLog, writes, unpacked>>

\* self.get_kwargs(): the flat table of resolved parameters.
get_kwargs == canon["kwargs"]

\* models.py 307-313, 315-321: the sub-mapping of a stage, the keys k_ of
\* kwargs with `k_ in stage.kwargs`.
Routed(kw, inst) ==
    [k \in {k_ \in DOMAIN kw : contains(canon, heap[href[inst]["kwargs"]], k_)} |-> kw[k]]

\* The per-kind table: a stage has an entry once a key was routed to it.
RoutedTable(kw, insts) ==
    [i \in {j \in Attached(insts) : DOMAIN Routed(kw, j) # {}} |-> Routed(kw, i)]

\* models.py 301-323: ModelPluginBase.unpack_args
unpack_args ==
    /\ Attached(Insts) # {}
    /\ unpacked' = [kwargs |-> get_kwargs,
                    builds |-> RoutedTable(get_kwargs, BuildInsts),
                    routines |-> RoutedTable(get_kwargs, RoutineInsts)]
    /\ unpacked' # unpacked
    /\ UNCHANGED <<canon, href, heap, attach, aliases, aliasLog, writes>>

\* ---------------------------------------------- the sample composition
\* Routine keys of the composition (ModelPluginBase._routines).  The key
\* "data" makes "<key>.<output>" meet a seeded "data.<field>" entry.
RoutineKeys == {"enc", "dec", "data"}

\* The fields of a batch of the data source (self._data.batch).
BatchFields == {"x"}

\* routine.plugin_inputs: the required input names, in order.
plugin_inputs(key) ==
    CASE key = "enc" -> <<"x">>
      [] key = "dec" -> <<"x", "pair">>
      [] OTHER -> <<"z", "y">>

\* routine.plugin_optional_inputs: the optional input names, in order.
plugin_optional_inputs(key) ==
    CASE key = "enc" -> <<"prev">>
      [] key = "dec" -> <<"label", "both">>
      [] OTHER -> <<>>

\* routine._names.get(k, k): the remap of an input name to the ValuePool
\* key(s) it is read from; a sequence of one key stands for a single key,
\* IsList tells a list/tuple of keys from a single key.
IsList(key, k) == key = "dec" /\ k \in {"pair", "both"}

names_get(key, k) ==
    CASE key = "enc" /\ k = "x" -> <<"data.x">>
      [] key = "enc" /\ k = "prev" -> <<"enc.z">>
      [] key = "dec" /\ k = "x" -> <<"data.x">>
      [] key = "dec" /\ k = "pair" -> <<"data.x", "enc.z">>
      [] key = "dec" /\ k = "label" -> <<"data.label">>
      [] key = "dec" /\ k = "both" -> <<"enc.z", "data.label">>
      [] key = "data" /\ k = "z" -> <<"enc.z">>
      [] key = "data" /\ k = "y" -> <<"dec.y">>
      [] OTHER -> <<k>>

\* The output name a routine returns from its call.
OutputName(key) ==
    CASE key = "enc" -> "z"
      [] key = "dec" -> "y"
      [] OTHER -> "x"

\* The resource a routine reports a loss for, and its result key.
LossKey(key) ==
    CASE key = "enc" -> "enc"
      [] key = "dec" -> "dec"
      [] OTHER -> key

ResultKey(key) == "acc"

\* The scalars one call of a routine can leave behind.  A finite loss or
\* result is written "<step>.<iteration>", so that a value tells which call
\* of the run produced it; a loss may also be null, a result not-a-number
\* or infinite.
Scalar(step, iter) == ToString(step) \o "." \o ToString(iter)

\* utils.bad_values: the keys whose scalar is not-a-number or infinite
\* (an empty set stands for the False it returns when there is none).
BadScalars == {"nan", "inf", "-inf"}

bad_values(d) == {k \in DOMAIN d : d[k] \in BadScalars}

LossKinds == {"null", "value"}
ResultKinds == {"value", "nan", "inf"}

\* ------------------------------------------------------------- the state
VARIABLES
    pc,          \* where run_procedure stands: idle, wire, invoke, post, merge, raised, exited
    err,         \* the exception that left run_procedure, if any
    train,       \* the train argument of the running step
    quit,        \* the quit_on_bad_values argument of the running step
    procedure,   \* the routine keys of self._train_procedures[i]
    updates,     \* the repeat-counts of self._train_procedures[i]
    ri,          \* position in zip(procedure, updates)
    update,      \* the local update of the current routine
    u,           \* the local u of range(update)
    inputs,      \* the local Handler inputs: the ValuePool
    outputs,     \* the local outputs of the last routine call
    rt,          \* per routine key: results, losses, inputs, training_nets
    results,     \* self._results: the accumulator
    dataPos,     \* number of self._data.next() calls so far
    opt,         \* optimizer / gradient operations of the current iteration
    calls,       \* the routine calls of the running step, in order
    anomalies,   \* the bad scalars the calls of the running step left in results
    steps,       \* number of run_procedure calls started
    fetched,     \* number of self._data.next() calls of the running step
    nonnull      \* per routine key: the resources it has left a non-null loss for

schedVars == <<pc, err, train, quit, procedure, updates, ri, update, u, inputs,
               outputs, rt, results, dataPos, opt, calls, anomalies, steps,
               fetched, nonnull>>

NoErr == [kind |-> "none", msg |-> "", key |-> <<>>]

\* ResultsHandler(time=dict(), losses=dict()) and what reset() leaves.
FreshResults == [general |-> EmptyMap, losses |-> EmptyMap, time |-> EmptyMap]

\* RoutinePluginBase.__init__: empty results, losses and trained list.
FreshRoutine == [results |-> EmptyMap, losses |-> EmptyMap,
                 inputs |-> EmptyMap, training_nets |-> <<>>]

\* RoutinePluginBase.reset: results, losses and inputs are cleared, the
\* list of trained resources is kept.
RoutineReset(r) == [r EXCEPT !.results = EmptyMap, !.losses = EmptyMap,
                             !.inputs = EmptyMap]

\* ModelPluginBase.reset_routines.
reset_routines(R) == [k \in DOMAIN R |-> RoutineReset(R[k])]

\* The schedules self._train_procedures[i] can hold: 1..MaxProc routine
\* keys with repeat-counts 1..MaxUpdate.
train_procedures ==
    UNION {[1..n -> RoutineKeys] \X [1..n -> 1..MaxUpdate] : n \in 1..MaxProc}

\* The batch the data source holds after `pos` calls of next().
Batch(pos) == [f \in BatchFields |-> pos]

\* for k, v in self._data.batch.items(): inputs['data.' + k] = v
Seed(batch) ==
    [kk \in {"data." \o f : f \in DOMAIN batch} |->
        batch[CHOOSE f \in DOMAIN batch : "data." \o f = kk]]

\* The state after construction of a composition scheduled with proc.
SchedInit(proc) ==
    /\ pc = "idle"
    /\ err = NoErr
    /\ train = FALSE
    /\ quit = FALSE
    /\ procedure = proc[1]
    /\ updates = proc[2]
    /\ ri = 0
    /\ update = 0
    /\ u = 0
    /\ inputs = EmptyMap
    /\ outputs = EmptyMap
    /\ rt = [k \in RoutineKeys |-> FreshRoutine]
    /\ results = FreshResults
    /\ dataPos = 0
    /\ opt = <<>>
    /\ calls = <<>>
    /\ anomalies = {}
    /\ steps = 0
    /\ fetched = 0
    /\ nonnull = [k \in RoutineKeys |-> {}]

\* ------------------------------------------------------ wiring of inputs
\* inputs[s] succeeds for every key the send names.
Present(pool, send) == \A j \in DOMAIN send : send[j] \in DOMAIN pool

\* routine.inputs[receive] = [inputs[s] for s in send]  (a list of keys)
\* routine.inputs[receive] = inputs[send]               (a single key)
Capture(pool, key, k) ==
    LET send == names_get(key, k)
    IN  IF IsList(key, k)
        THEN [kind |-> "list", v |-> [j \in DOMAIN send |-> pool[send[j]]]]
        ELSE [kind |-> "value", v |-> <<pool[send[1]]>>]

\* routine.inputs[receive] = None
AbsentMarker == [kind |-> "none", v |-> <<>>]

\* Position of the first required input whose lookup raises KeyError, 0 if
\* every required input is found.
FirstMissing(pool, key) ==
    LET rs == plugin_inputs(key)
        bad == {j \in DOMAIN rs : ~Present(pool, names_get(key, rs[j]))}
    IN  IF bad = {} THEN 0 ELSE CHOOSE j \in bad : \A j2 \in bad : j <= j2

WireRequiredLenient(pool, key) ==
    [missing |-> 0,
     inputs |-> [k \in Range(plugin_inputs(key)) |->
                   IF Present(pool, names_get(key, k)) THEN Capture(pool, key, k)
                   ELSE AbsentMarker]]

\* models.py 360-373: the required inputs captured before the loop ends
\* or raises, and the position of the input that raised (0 if none).
WireRequired(pool, key) ==
    LET rs == plugin_inputs(key)
        m == FirstMissing(pool, key)
        done == {j \in DOMAIN rs : m = 0 \/ j < m}
    IN  [missing |-> m,
         inputs |-> [k \in {rs[j] : j \in done} |-> Capture(pool, key, k)]]

WireOptionalSkip(pool, key) ==
    [k \in {k2 \in Range(plugin_optional_inputs(key)) :
               Present(pool, names_get(key, k2))} |-> Capture(pool, key, k)]

\* models.py 376-386: the optional inputs; any failing lookup leaves None.
WireOptional(pool, key) ==
    [k \in Range(plugin_optional_inputs(key)) |->
        IF Present(pool, names_get(key, k)) THEN Capture(pool, key, k)
        ELSE AbsentMarker]

ZeroGradsNone(key, nets) == <<>>

\* if train: for k in routine.training_nets: zero_grad on the optimizer of
\* the remapped name, then requires_grad = True on the parameters of net k.
ZeroGrads(key, nets) ==
    [j \in 1..(2 * Len(nets)) |->
        IF j % 2 = 1
        THEN [op |-> "zero_grad", net |-> names_get(key, nets[(j + 1) \div 2])[1]]
        ELSE [op |-> "requires_grad", net |-> nets[j \div 2]]]

\* ------------------------------------------------------------ run_procedure
EffectiveUpdateConfigured(t, n) == n

\* models.py 339-340: if not train: update = 1
EffectiveUpdate(t, n) == IF t THEN n ELSE 1

IsLastAlways(iter, n) == TRUE

\* models.py 402: if u == update - 1
IsLast(iter, n) == iter = n - 1

ShouldExitNever(bads, q) == FALSE

ShouldExitAlways(bads, q) == bads # {}

\* models.py 418: if bads and quit_on_bad_values
ShouldExit(bads, q) == bads # {} /\ q

\* models.py 330-336 (and 338-340 for the first routine): fetch a batch,
\* reset the routines, seed the ValuePool, take the schedule.
Begin(q, t) ==
    /\ pc = "idle"
    /\ steps < MaxSteps
    /\ dataPos' = dataPos + 1
    /\ fetched' = 1
    /\ rt' = reset_routines(rt)
    /\ inputs' = Seed(Batch(dataPos + 1))
    /\ train' = t
    /\ quit' = q
    /\ ri' = 1
    /\ update' = EffectiveUpdate(t, updates[1])
    /\ u' = 0
    /\ pc' = "wire"
    /\ calls' = <<>>
    /\ anomalies' = {}
    /\ opt' = <<>>
    /\ outputs' = EmptyMap
    /\ steps' = steps + 1
    /\ UNCHANGED <<err, results, procedure, updates, nonnull>>

RefetchAlways(iter) == TRUE

\* models.py 342: if u > 0 (then self._data.next())
Refetch(iter) == iter > 0

\* models.py 342-386: one pass from the top of the repeat loop down to the
\* call: refetch, routine.reset(), gradient set-up, required and optional
\* inputs.
Wire ==
    /\ pc = "wire"
    /\ LET key == procedure[ri]
           r0 == RoutineReset(rt[key])
           w == WireRequired(inputs, key)
           m == w.missing
           req == w.inputs
       IN  /\ dataPos' = IF Refetch(u) THEN dataPos + 1 ELSE dataPos
           /\ fetched' = IF Refetch(u) THEN fetched + 1 ELSE fetched
           /\ opt' = IF train THEN ZeroGrads(key, r0.training_nets) ELSE <<>>
           /\ IF m # 0
              THEN /\ rt' = [rt EXCEPT ![key] = [r0 EXCEPT !.inputs = req]]
                   /\ pc' = "raised"
                   /\ err' = [kind |-> "KeyError", msg |-> "not found in inputs",
                              key |-> names_get(key, plugin_inputs(key)[m])]
              ELSE /\ rt' = [rt EXCEPT ![key] =
                               [r0 EXCEPT !.inputs = req @@ WireOptional(inputs, key)]]
                   /\ pc' = "invoke"
                   /\ err' = err
    /\ UNCHANGED <<train, quit, procedure, updates, ri, update, u, inputs,
                   outputs, results, calls, anomalies, steps, nonnull>>

\* models.py 388-389: outputs = routine(**kwargs).  The routine sets its
\* loss (null or finite) and its result, and returns its outputs.
Invoke(loss, res) ==
    /\ pc = "invoke"
    /\ LET key == procedure[ri]
           val == Scalar(steps, u + 1)
       IN  /\ rt' = [rt EXCEPT
                     ![key].losses = [k \in {LossKey(key)} |->
                                         IF loss = "null" THEN None ELSE val],
                     ![key].results = [k \in {ResultKey(key)} |->
                                         IF res = "value" THEN val ELSE res]]
           /\ outputs' = [k \in {OutputName(key)} |-> u + 1]
           /\ calls' = Append(calls, [key |-> key, ri |-> ri, u |-> u])
           /\ anomalies' = anomalies \cup ({res} \cap BadScalars)
           /\ opt' = Append(opt, [op |-> "call", net |-> key])
           /\ nonnull' = IF loss = "null" THEN nonnull
                          ELSE [nonnull EXCEPT ![key] = @ \cup {LossKey(key)}]
    /\ pc' = "post"
    /\ UNCHANGED <<err, train, quit, procedure, updates, ri, update, u, inputs,
                   results, dataPos, steps, fetched>>

\* The keys of a mapping as a sequence (the order of .items()/.keys()).
RECURSIVE SetToSeq(_)
SetToSeq(S) ==
    IF S = {} THEN <<>>
    ELSE LET x == CHOOSE y \in S : TRUE
         IN  <<x>> \o SetToSeq(S \ {x})

Keys(m) == SetToSeq(DOMAIN m)

BackpropAll(key, losses, ks) ==
    [j \in 1..(2 * Len(ks)) |->
        IF j % 2 = 1 THEN [op |-> "backward", net |-> ks[(j + 1) \div 2]]
        ELSE [op |-> "step", net |-> names_get(key, ks[j \div 2])[1]]]

\* models.py 392-397: for every non-null loss, backward() then a step of
\* the optimizer of the remapped name.
RECURSIVE Backprop(_, _, _)
Backprop(key, losses, ks) ==
    IF ks = <<>> THEN <<>>
    ELSE (IF losses[Head(ks)] # None
          THEN <<[op |-> "backward", net |-> Head(ks)],
                 [op |-> "step", net |-> names_get(key, Head(ks))[1]]>>
          ELSE <<>>) \o Backprop(key, losses, Tail(ks))

FirstDupUnchecked(pool, key, outs) == 0

\* models.py 403-409: the position in outputs.items() of the first output
\* whose key "<key>.<k>" is already in the ValuePool, 0 if there is none.
FirstDup(pool, key, outs) ==
    LET ks == Keys(outs)
        bad == {j \in DOMAIN ks : (key \o "." \o ks[j]) \in DOMAIN pool}
    IN  IF bad = {} THEN 0 ELSE CHOOSE j \in bad : \A j2 \in bad : j <= j2

\* The ValuePool after the outputs before position m (all if m = 0) were
\* written: inputs[k_] = v.detach().
Populate(pool, key, outs) ==
    LET ks == Keys(outs)
        m == FirstDup(pool, key, outs)
        done == {j \in DOMAIN ks : m = 0 \/ j < m}
        new == [kk \in {key \o "." \o ks[j] : j \in done} |->
                   outs[CHOOSE k \in DOMAIN outs : key \o "." \o k = kk]]
    IN  new @@ pool

\* models.py 412-414: append every loss key not yet listed.
RECURSIVE AddTrained(_, _)
AddTrained(nets, ks) ==
    IF ks = <<>> THEN nets
    ELSE AddTrained(IF Head(ks) \in Range(nets) THEN nets
                    ELSE Append(nets, Head(ks)), Tail(ks))

\* utils.update_dict_of_lists: append each value to the list of its key,
\* creating the list on first use.
update_dict_of_lists(d, m) ==
    [k \in DOMAIN d \cup DOMAIN m |->
        IF k \in DOMAIN m
        THEN (IF k \in DOMAIN d THEN Append(d[k], m[k]) ELSE <<m[k]>>)
        ELSE d[k]]

\* models.py 391-422: backprop, emit the outputs on the last iteration,
\* record the trained resources, check for bad values; then the loop goes
\* on to the next iteration or leaves for the merge.
Post ==
    /\ pc = "post"
    /\ LET key == procedure[ri]
           r == rt[key]
           last == IsLast(u, update)
           dup == IF last THEN FirstDup(inputs, key, outputs) ELSE 0
           bads == bad_values(r.results)
       IN  /\ opt' = IF train THEN opt \o Backprop(key, r.losses, Keys(r.losses))
                     ELSE opt
           /\ inputs' = IF last THEN Populate(inputs, key, outputs) ELSE inputs
           /\ IF dup # 0
              THEN /\ pc' = "raised"
                   /\ err' = [kind |-> "KeyError", msg |-> "already in inputs",
                              key |-> <<key \o "." \o Keys(outputs)[dup]>>]
                   /\ UNCHANGED <<rt, u>>
              ELSE /\ rt' = [rt EXCEPT ![key].training_nets =
                                AddTrained(r.training_nets, Keys(r.losses))]
                   /\ IF ShouldExit(bads, quit)
                      THEN /\ pc' = "exited"
                           /\ err' = [kind |-> "SystemExit", msg |-> "", key |-> <<>>]
                           /\ u' = u
                      ELSE /\ err' = err
                           /\ IF last THEN pc' = "merge" /\ u' = u
                              ELSE pc' = "wire" /\ u' = u + 1
    /\ UNCHANGED <<train, quit, procedure, updates, ri, update, outputs,
                   results, dataPos, calls, anomalies, steps, fetched, nonnull>>

\* The elapsed time end_time - start_time of a call.
Elapsed == "dt"

MergedWithoutTime(res, key, r) ==
    [general |-> update_dict_of_lists(res.general, r.results),
     losses |-> update_dict_of_lists(res.losses, r.losses),
     time |-> res.time]

\* models.py 428-431: the three update_dict_of_lists calls.
Merged(res, key, r) ==
    [general |-> update_dict_of_lists(res.general, r.results),
     losses |-> update_dict_of_lists(res.losses, r.losses),
     time |-> update_dict_of_lists(res.time, [k \in {key} |-> Elapsed])]

\* models.py 424-431 and the head of the next pass of the for loop
\* (338-340): v.item() of every loss, then the three merges.
Merge ==
    /\ pc = "merge"
    /\ LET key == procedure[ri]
           r == rt[key]
       IN  IF \E k \in DOMAIN r.losses : r.losses[k] = None
           THEN /\ pc' = "raised"
                /\ err' = [kind |-> "AttributeError", msg |-> "item", key |-> <<>>]
                /\ UNCHANGED <<results, ri, update, u>>
           ELSE /\ results' = Merged(results, key, r)
                /\ err' = err
                /\ IF ri < Len(procedure)
                   THEN /\ ri' = ri + 1
                        /\ update' = EffectiveUpdate(train, updates[ri + 1])
                        /\ u' = 0
                        /\ pc' = "wire"
                   ELSE /\ pc' = "idle"
                        /\ UNCHANGED <<ri, update, u>>
    /\ UNCHANGED <<train, quit, procedure, updates, inputs, outputs, rt,
                   dataPos, opt, calls, anomalies, steps, fetched, nonnull>>

ResetRoutinesOnly ==
    /\ pc = "idle"
    /\ rt' = reset_routines(rt)
    /\ anomalies' = {}
    /\ UNCHANGED <<pc, err, train, quit, procedure, updates, ri, update, u,
                   inputs, outputs, results, dataPos, opt, calls, steps,
                   fetched, nonnull>>

\* models.py 438-441: ModelPluginBase.reset.
Reset ==
    /\ pc = "idle"
    /\ rt' = reset_routines(rt)
    /\ results' = FreshResults
    /\ anomalies' = {}
    /\ UNCHANGED <<pc, err, train, quit, procedure, updates, ri, update, u,
                   inputs, outputs, dataPos, opt, calls, steps, fetched, nonnull>>

vars == <<schedVars, regVars, aliasVars, discVars>>

\* One run of the driver: steps of run_procedure on one schedule.
Init ==
    /\ \E proc \in train_procedures : SchedInit(proc)
    /\ RegInit /\ AliasInit
    /\ DiscInit([i \in 1..MaxPlugins |-> SoundComposition])

Next ==
    \/ \E q \in BOOLEAN, t \in BOOLEAN : Begin(q, t) /\ UNCHANGED <<regVars, aliasVars, discVars>>
    \/ Wire /\ UNCHANGED <<regVars, aliasVars, discVars>>
    \/ \E loss \in LossKinds, res \in ResultKinds :
          Invoke(loss, res) /\ UNCHANGED <<regVars, aliasVars, discVars>>
    \/ Post /\ UNCHANGED <<regVars, aliasVars, discVars>>
    \/ Merge /\ UNCHANGED <<regVars, aliasVars, discVars>>
    \/ Reset /\ UNCHANGED <<regVars, aliasVars, discVars>>

Spec == Init /\ [][Next]_vars

\* Registration of plugins at import time.
RegNext ==
    \/ \E plugin \in Plugins : register_build(plugin) /\ UNCHANGED <<schedVars, aliasVars, discVars>>
    \/ \E plugin \in Plugins : register_routine(plugin) /\ UNCHANGED <<schedVars, aliasVars, discVars>>
    \/ \E plugin \in Plugins : register_model(plugin) /\ UNCHANGED <<schedVars, aliasVars, discVars>>

\* The scheduler stands still in the other two specifications.
NoSchedule == << <<"enc">>, <<MaxUpdate>> >>

RegSpecInit ==
    /\ SchedInit(NoSchedule) /\ RegInit /\ AliasInit
    /\ DiscInit([i \in 1..MaxPlugins |-> SoundComposition])

SpecRegistry == RegSpecInit /\ [][RegNext]_vars

\* Assembly of a composition and accesses through its alias handlers.
AliasNext ==
    \/ \E inst \in Insts, al \in AliasChoices :
          add_routine(inst, al) /\ UNCHANGED <<schedVars, regVars, discVars>>
    \/ \E inst \in Insts, al \in AliasChoices :
          add_build(inst, al) /\ UNCHANGED <<schedVars, regVars, discVars>>
    \/ \E inst \in Insts, ns \in Namespaces, name \in Names, v \in Values :
          AliasSet(inst, ns, name, v) /\ UNCHANGED <<schedVars, regVars, discVars>>

SpecAlias == RegSpecInit /\ [][AliasNext]_vars

\* Assembly of a composition, its global kwarg table and its unpacking.
UnpackNext ==
    \/ \E inst \in Insts, al \in AliasChoices :
          add_routine(inst, al) /\ UNCHANGED <<schedVars, regVars, discVars>>
    \/ \E inst \in Insts, al \in AliasChoices :
          add_build(inst, al) /\ UNCHANGED <<schedVars, regVars, discVars>>
    \/ set_kwargs /\ UNCHANGED <<schedVars, regVars, discVars>>
    \/ unpack_args /\ UNCHANGED <<schedVars, regVars, discVars>>

SpecUnpack == RegSpecInit /\ [][UnpackNext]_vars

\* Discovery: the imports of find_models, then its loop over the models.
DiscNext ==
    \/ \E plugin \in Plugins : FindImport(plugin) /\ UNCHANGED <<schedVars, aliasVars>>
    \/ FindKeys /\ UNCHANGED <<schedVars, aliasVars>>
    \/ FindCheck /\ UNCHANGED <<schedVars, aliasVars>>

DiscSpecInit ==
    /\ SchedInit(NoSchedule) /\ RegInit /\ AliasInit
    /\ \E c \in [1..MaxPlugins -> Compositions] : DiscInit(c)

SpecDiscovery == DiscSpecInit /\ [][DiscNext]_vars

\* ------------------------------------------------------------ properties
\* A step of run_procedure has been started and its schedule entered.
InStep == steps > 0

\* The calls of the running step have all been post-processed, except the
\* last one while the scheduler stands right after the call.
CallsDone ==
    IF pc \in {"wire", "invoke"} \/ (pc = "raised" /\ err.msg = "not found in inputs")
    THEN u ELSE u + 1

\* The calls a schedule position makes when it repeats n times.
CallsOf(r, n) == [j \in 1..n |-> [key |-> procedure[r], ri |-> r, u |-> j - 1]]

\* The calls of positions 1..r when each repeats its configured count.
RECURSIVE ConfiguredCalls(_)
ConfiguredCalls(r) ==
    IF r = 0 THEN <<>> ELSE ConfiguredCalls(r - 1) \o CallsOf(r, updates[r])

\* C1: in evaluation mode every scheduled routine is invoked exactly once
\* per step, in procedure order, whatever its configured repeat-count: the
\* calls of the step are the routines of positions 1, 2, ... once each, and
\* a completed step has called every position.
C1_EvalOncePerRoutine ==
    (InStep /\ ~train) =>
        /\ Len(calls) = (IF CallsDone = 1 THEN ri ELSE ri - 1)
        /\ \A j \in DOMAIN calls :
              calls[j] = [key |-> procedure[j], ri |-> j, u |-> 0]
        /\ (pc = "idle" => Len(calls) = Len(procedure))

C1_Witness ==
    /\ InStep /\ ~train /\ pc = "idle"
    /\ Len(procedure) = MaxProc
    /\ \A j \in DOMAIN updates : updates[j] > 1
    /\ Len(calls) = MaxProc

\* The ValuePool key of a routine's output.
OutputKey(key) == key \o "." \o OutputName(key)

SeededKeys == {"data." \o f : f \in BatchFields}

\* Position j of calls is a final iteration whose outputs were emitted.
Emitted(j) ==
    /\ calls[j].u = updates[calls[j].ri] - 1
    /\ (j < Len(calls) \/ pc # "post")

\* C2: in training mode a routine scheduled with repeat-count N is invoked
\* exactly N times in one step, and the ValuePool entry "<key>.<output>"
\* holds the output of the N-th invocation only: it is absent until a final
\* iteration has emitted it and then holds that iteration's output (N).
C2_TrainRepeatsFinalOutput ==
    (InStep /\ train) =>
        /\ calls = ConfiguredCalls(ri - 1)
                     \o SubSeq(CallsOf(ri, updates[ri]), 1, CallsDone)
        /\ (pc \in {"merge", "idle"} => CallsDone = updates[ri])
        /\ \A key \in RoutineKeys :
              OutputKey(key) \notin SeededKeys =>
                 /\ OutputKey(key) \in DOMAIN inputs <=>
                       \E j \in DOMAIN calls : calls[j].key = key /\ Emitted(j)
                 /\ OutputKey(key) \in DOMAIN inputs =>
                       \E j \in DOMAIN calls :
                          /\ calls[j].key = key /\ Emitted(j)
                          /\ inputs[OutputKey(key)] = updates[calls[j].ri]

C2_Witness ==
    /\ InStep /\ train /\ pc = "idle"
    /\ procedure[1] = "enc" /\ updates[1] = MaxUpdate
    /\ Cardinality({j \in DOMAIN calls : calls[j].key = "enc"}) = MaxUpdate
    /\ inputs["enc.z"] = MaxUpdate

\* The routine the scheduler stands at, and the repeat-count in force.
CurKey == procedure[ri]

CurCount == IF train THEN updates[ri] ELSE 1

\* The ValuePool keys the outputs of the last call would be written to.
PendingKeys == {CurKey \o "." \o k : k \in DOMAIN outputs}

\* C3: whenever the final iteration of a routine would write a key
\* "<routine_key>.<output_name>" that is already in the ValuePool, the step
\* fails with a KeyError naming that key (DuplicateOutputKey), no entry of
\* the ValuePool is overwritten, and the error is raised to the caller: the
\* process is not terminated.
C3_DuplicateOutputKey ==
    [][(pc = "post" /\ u = CurCount - 1 /\ PendingKeys \cap DOMAIN inputs # {}) =>
          /\ pc' = "raised"
          /\ err'.kind = "KeyError" /\ err'.msg = "already in inputs"
          /\ Range(err'.key) \subseteq PendingKeys \cap DOMAIN inputs
          /\ err'.key # <<>>
          /\ \A k \in DOMAIN inputs : k \in DOMAIN inputs' /\ inputs'[k] = inputs[k]
      ]_vars

C3_Witness ==
    /\ pc = "raised" /\ err.msg = "already in inputs"
    /\ err.key = <<"enc.z">>
    /\ ri > 1 /\ procedure[1] = "enc" /\ procedure[ri] = "enc"
    /\ inputs["enc.z"] = (IF train THEN updates[1] ELSE 1)

\* The ValuePool keys the required inputs of a routine are read from.
RequiredKeys(key) ==
    UNION {Range(names_get(key, k)) : k \in Range(plugin_inputs(key))}

\* C4: if a ValuePool key that a required input of the routine resolves to
\* is absent when the routine is wired, the step fails with a KeyError
\* "not found in inputs" (MissingRequiredInput) that names an absent key,
\* the routine is not invoked in that step, and no later routine runs.
C4_MissingRequiredInput ==
    /\ [][(pc = "wire" /\ ~(RequiredKeys(CurKey) \subseteq DOMAIN inputs)) =>
             /\ pc' = "raised"
             /\ err'.kind = "KeyError" /\ err'.msg = "not found in inputs"
             /\ Range(err'.key) \ DOMAIN inputs # {}
             /\ calls' = calls
         ]_vars
    /\ [][pc = "raised" => (pc' = "raised" /\ calls' = calls)]_vars
    /\ []((pc = "raised" /\ err.msg = "not found in inputs") =>
             /\ Range(err.key) \subseteq RequiredKeys(CurKey)
             /\ \A j \in DOMAIN calls : calls[j].ri < ri)

C4_Witness ==
    /\ pc = "raised" /\ err.msg = "not found in inputs"
    /\ CurKey = "dec" /\ err.key = <<"data.x", "enc.z">>
    /\ ri < Len(procedure)
    /\ calls = <<>>

\* C5: if a ValuePool key that an optional input of the routine resolves to
\* is absent, the captured input of that name is None, no error is raised
\* by the wiring, and the routine is still invoked in that iteration.
C5_OptionalAbsentIsNone ==
    /\ [](pc = "invoke" =>
             /\ \A k \in Range(plugin_optional_inputs(CurKey)) :
                   ~(Range(names_get(CurKey, k)) \subseteq DOMAIN inputs) =>
                      /\ k \in DOMAIN rt[CurKey].inputs
                      /\ rt[CurKey].inputs[k] = AbsentMarker
             /\ ENABLED Invoke("value", "value"))
    /\ [][(pc = "wire" /\ RequiredKeys(CurKey) \subseteq DOMAIN inputs) =>
             (pc' = "invoke" /\ err' = err)]_vars
    /\ [][pc = "invoke" =>
             (pc' = "post" /\ calls' = Append(calls, [key |-> CurKey, ri |-> ri, u |-> u]))
         ]_vars

C5_Witness ==
    /\ pc = "post" /\ CurKey = "dec"
    /\ rt["dec"].inputs["label"] = AbsentMarker
    /\ rt["dec"].inputs["both"] = AbsentMarker
    /\ "enc.z" \in DOMAIN inputs
    /\ calls[Len(calls)].key = "dec"

\* The results the last call of the current routine left hold a
\* not-a-number or infinite scalar.
BadNow ==
    \E k \in DOMAIN rt[CurKey].results : rt[CurKey].results[k] \in {"nan", "inf", "-inf"}

\* C6: with strict mode on, once an iteration of a routine has left a
\* not-a-number or infinite value in its scalar results the run halts: the
\* scheduler stands right after that call or has left run_procedure (by
\* exit, or by the KeyError of an output key collision raised before the
\* check), so that no later iteration and no later routine is invoked.
C6_StrictModeHalts ==
    (InStep /\ quit /\ anomalies # {}) =>
        /\ pc \in {"post", "exited", "raised"}
        /\ BadNow
        /\ calls[Len(calls)] = [key |-> CurKey, ri |-> ri, u |-> u]
        /\ (pc = "raised" => err.msg = "already in inputs")

C6_Witness ==
    /\ pc = "exited" /\ quit /\ train
    /\ ri = 1 /\ u = 0 /\ updates[1] > 1 /\ Len(procedure) > 1
    /\ Len(calls) = 1 /\ BadNow

\* The original statement of C7: after a step in non-strict mode every
\* anomalous value a call of the step left in a routine's results is in
\* the accumulator's history.
C7_Original ==
    (InStep /\ ~quit /\ pc = "idle") =>
        \A v \in anomalies :
            \E k \in DOMAIN results.general : v \in Range(results.general[k])

\* The results the routine of position r holds are the entry of
\* results.general that its merge appended (every routine reports under the
\* same result key, so the merges of one step are the tail of the history).
MergedAt(r) ==
    \A k \in DOMAIN rt[procedure[r]].results :
        /\ k \in DOMAIN results.general
        /\ Len(results.general[k]) >= Len(procedure) - r + 1
        /\ results.general[k][Len(results.general[k]) - (Len(procedure) - r)]
              = rt[procedure[r]].results[k]

\* C7 as amended: with strict mode off the check for bad values never ends
\* the step (after a call the scheduler goes on to the next iteration or to
\* the merge, unless an output key collides), and every step that completes
\* has appended the results of each routine's final iteration, anomalous
\* values included, to the accumulator's history; values left by earlier
\* iterations are not appended.
C7_NonStrictContinues ==
    /\ [][(pc = "post" /\ ~quit) =>
             /\ pc' \in {"wire", "merge", "raised"}
             /\ (pc' = "raised" => err'.msg = "already in inputs")
             /\ (pc' = "wire" => u < CurCount - 1)
         ]_vars
    /\ []((InStep /\ ~quit /\ pc = "idle"
             /\ \A r \in DOMAIN procedure : rt[procedure[r]].results # EmptyMap) =>
             \A r \in DOMAIN procedure : MergedAt(r))

C7_Witness ==
    /\ InStep /\ ~quit /\ pc = "idle"
    /\ Len(procedure) > 1 /\ Len(calls) > 1
    /\ rt[procedure[1]].results["acc"] = "nan"
    /\ MergedAt(1)

\* The step that produced a finite scalar.
StepOf(v) ==
    CHOOSE st \in 1..steps : \E it \in 1..MaxUpdate : v = Scalar(st, it)

IsScalar(v) == \E st \in 1..steps : \E it \in 1..MaxUpdate : v = Scalar(st, it)

\* C8: the accumulator is append-only between resets: each loss history
\* holds finite loss values of distinct steps in step order, a merge
\* appends the routine's loss of this step to the history of its key and
\* touches no other history, nothing else changes a history, and reset()
\* leaves no history.
C8_AccumulatorAppendOnly ==
    /\ [](\A k \in DOMAIN results.losses :
             /\ \A i \in DOMAIN results.losses[k] : IsScalar(results.losses[k][i])
             /\ \A i, j \in DOMAIN results.losses[k] :
                   i < j => StepOf(results.losses[k][i]) < StepOf(results.losses[k][j]))
    /\ [][IF pc = "idle" /\ pc' = "idle"
          THEN results' = FreshResults
          ELSE IF pc = "merge" /\ pc' # "raised"
          THEN /\ DOMAIN results'.losses = DOMAIN results.losses \cup DOMAIN rt[CurKey].losses
               /\ \A k \in DOMAIN results'.losses :
                     results'.losses[k] =
                        (IF k \in DOMAIN results.losses THEN results.losses[k] ELSE <<>>)
                        \o (IF k \in DOMAIN rt[CurKey].losses
                            THEN <<rt[CurKey].losses[k]>> ELSE <<>>)
          ELSE results' = results
         ]_vars

C8_Witness ==
    /\ pc = "idle" /\ steps = 2
    /\ "enc" \in DOMAIN results.losses
    /\ results.losses["enc"] = <<Scalar(1, 1), Scalar(2, MaxUpdate)>>
    /\ ENABLED Reset

\* The table of a kind of plugin.
Table(kind) ==
    CASE kind = "build" -> _BUILD_PLUGINS
      [] kind = "routine" -> _ROUTINE_PLUGINS
      [] OTHER -> MODEL_PLUGINS

\* C9: each kind's table maps every name to the first plugin registered
\* under it: an entry never changes; a registration touches only the table
\* of its own kind; it raises KeyError (DuplicateName) exactly when the
\* name is already in that table, whatever the other tables hold, and then
\* no table changes; when it succeeds the name maps to the new plugin.
C9_RegistryFirstWins ==
    [][\A kind \in {"build", "routine", "model"} :
          /\ \A n \in DOMAIN Table(kind) :
                n \in DOMAIN Table(kind)' /\ Table(kind)'[n] = Table(kind)[n]
          /\ (kind # regLast'.kind => Table(kind)' = Table(kind))
          /\ (kind = regLast'.kind =>
                /\ (regErr' = "KeyError" <=> regLast'.name \in DOMAIN Table(kind))
                /\ (regErr' # "none" => Table(kind)' = Table(kind))
                /\ (regErr' = "none" =>
                      /\ DOMAIN Table(kind)' = DOMAIN Table(kind) \cup {regLast'.name}
                      /\ Table(kind)'[regLast'.name].id = regLast'.id))
      ]_vars

C9_Witness ==
    /\ regErr = "KeyError" /\ regLast.kind = "routine" /\ regLast.name = "ae"
    /\ "ae" \in DOMAIN _BUILD_PLUGINS
    /\ "ae" \in DOMAIN _ROUTINE_PLUGINS
    /\ "ae" \in DOMAIN MODEL_PLUGINS
    /\ _ROUTINE_PLUGINS["ae"].id # regLast.id
    /\ _BUILD_PLUGINS["ae"].id # _ROUTINE_PLUGINS["ae"].id

\* What the map of namespace ns holds for a canonical name.
CanonValue(ns, name) ==
    IF name \in DOMAIN canon[ns] THEN canon[ns][name] ELSE KeyNotFound

\* C10: after set_alias(local, canonical) on the handler a stage instance
\* holds for a namespace, get(local) through that handler is the current
\* value of canonical in the composition's map of that namespace, whatever
\* was written since (through any instance, alias or canonical name) and
\* whatever aliases were registered on other names or other instances.
C10_AliasReflectsCanonical ==
    \A c \in aliasLog :
        /\ href[c[1]][c[2]] # NoHandler
        /\ get(canon, heap[href[c[1]][c[2]]], c[3]) = CanonValue(c[2], c[4])

C10_Witness ==
    /\ <<"r1", "nets", "net", "A">> \in aliasLog
    /\ <<"r2", "nets", "net", "B">> \in aliasLog
    /\ <<"r2", "vars", "var", "A">> \in aliasLog
    /\ attach["b1"] = "KeyError"
    /\ writes > 0
    /\ get(canon, heap[href["r1"]["nets"]], "net") = "v2"
    /\ get(canon, heap[href["r2"]["nets"]], "net") = KeyNotFound

\* The models whose check() raises.
Failing(D) == {n \in DOMAIN D : check(comp[D[n].id]) # "none"}

\* C11: discovery never lets a failing check() out of find_models, and when
\* it returns every listed composition was checked, the failing ones were
\* warned about and removed, and every other one is still registered.
C11_Original ==
    /\ findPc # "raised"
    /\ findPc = "done" =>
          /\ checked = DOMAIN snapshot
          /\ warned = Failing(snapshot)
          /\ MODEL_PLUGINS = [n \in DOMAIN snapshot \ Failing(snapshot) |-> snapshot[n]]

\* The sub-mapping unpack_args returned for a stage.
SubMapping(U, inst) ==
    IF inst \in DOMAIN U.builds THEN U.builds[inst]
    ELSE IF inst \in DOMAIN U.routines THEN U.routines[inst]
    ELSE EmptyMap

\* The keys a stage declares: its parameter names, and the canonical names
\* its aliases give them.
DeclaredKeys(inst) ==
    plugin_kwargs(inst)
        \cup {resolve(heap[href[inst]["kwargs"]], k) : k \in plugin_kwargs(inst)}

\* C12: unpack_args routes a key of the flat mapping into the sub-mapping
\* of a stage if and only if the stage declares that key.
C12_Original ==
    [][unpacked' # unpacked =>
          \A inst \in Attached(Insts) : \A k \in DOMAIN unpacked'.kwargs :
              k \in DOMAIN SubMapping(unpacked', inst) <=> k \in DeclaredKeys(inst)
      ]_vars

\* C13: in a training step, on every iteration after the first the
\* "data.<field>" entries of the ValuePool are those of the batch just
\* fetched when the routine is called, and the routine has received them.
C13_Original ==
    (InStep /\ train /\ pc = "invoke" /\ u > 0) =>
        /\ \A f \in BatchFields : inputs["data." \o f] = Batch(dataPos)[f]
        /\ \A k \in Range(plugin_inputs(CurKey)) :
              names_get(CurKey, k) = <<"data.x">> =>
                  rt[CurKey].inputs[k] = [kind |-> "value", v |-> <<Batch(dataPos)["x"]>>]

\* C14: at every boundary between iterations a resource is in a routine's
\* trained-resources list exactly when the routine has left a non-null
\* loss for it earlier in the run, and it is listed once.
C14_Original ==
    (pc \in {"wire", "merge", "idle"}) =>
        \A key \in RoutineKeys :
            /\ Range(rt[key].training_nets) = nonnull[key]
            /\ Cardinality(Range(rt[key].training_nets)) = Len(rt[key].training_nets)

\* The namespaces an alias of a stage belongs to by its declared role.
RoleNamespaces(inst, k) ==
    IF k \in plugin_nets(inst) THEN {"nets"}
    ELSE IF inst \in RoutineInsts /\ k \in plugin_vars(inst) THEN {"vars"}
    ELSE IF k \in plugin_kwargs(inst) THEN {"kwargs", "help"}
    ELSE {}

\* The aliases of a stage that come before the first one without a role.
BoundAliases(inst) ==
    LET al == aliases[inst]
    IN  {j \in DOMAIN al : \A i \in 1..j : RoleNamespaces(inst, al[i][1]) # {}}

\* C15: an attached stage failed with KeyError (UnknownAliasTarget) exactly
\* when one of its aliases names no declared role of the stage (a declared
\* variable counts for routines only); the aliases before it are bound, a
\* resource in nets only, a variable in vars only, a parameter in kwargs
\* and help, and no handler of the stage holds any other alias.
C15_UnknownAliasTarget ==
    \A inst \in Insts :
        attach[inst] # "new" =>
            /\ attach[inst] = "KeyError" <=>
                   \E j \in DOMAIN aliases[inst] :
                       RoleNamespaces(inst, aliases[inst][j][1]) = {}
            /\ \A ns \in Namespaces :
                   LET here == {j \in BoundAliases(inst) :
                                   ns \in RoleNamespaces(inst, aliases[inst][j][1])}
                       h == heap[NewHandler(inst, ns)]
                   IN  /\ DOMAIN h.aliases = {aliases[inst][j][1] : j \in here}
                       /\ \A j \in here :
                              h.aliases[aliases[inst][j][1]] = aliases[inst][j][2]

C15_Witness ==
    /\ attach["b1"] = "KeyError"
    /\ aliases["b1"] = << <<"var", "A">>, <<"net", "B">> >>
    /\ heap[<<"b1", "nets">>].aliases = EmptyMap
    /\ attach["r1"] = "ok"
    /\ aliases["r1"] = aliases["b1"]
    /\ heap[<<"r1", "vars">>].aliases = [k \in {"var"} |-> "A"]
    /\ attach["r2"] = "KeyError"
    /\ heap[<<"r2", "kwargs">>].aliases = [k \in {"dim"} |-> "B"]
    /\ heap[<<"r2", "help">>].aliases = [k \in {"dim"} |-> "B"]
    /\ heap[<<"r2", "nets">>].aliases = EmptyMap

\* The resources the routines report losses for.
Resources == {LossKey(key) : key \in RoutineKeys}

\* The positions of an operation on a resource in the log of an iteration.
OpsAt(o, op, net) == {j \in DOMAIN o : o[j].op = op /\ o[j].net = net}

CallAt(o) == {j \in DOMAIN o : o[j].op = "call"}

\* C16: in training an iteration steps the optimizer of a resource once if
\* the call left a non-null loss for it and not at all otherwise, always
\* after the call; in evaluation an iteration makes no gradient zeroing,
\* no differentiation enabling, no backward pass and no optimizer step.
C16_StepPerNonNullLoss ==
    /\ [][pc = "post" =>
             \A net \in Resources :
                Cardinality(OpsAt(opt', "step", net)) =
                   (IF train /\ net \in DOMAIN rt[CurKey].losses
                             /\ rt[CurKey].losses[net] # None
                    THEN 1 ELSE 0)
         ]_vars
    /\ [](\A j \in DOMAIN opt :
             opt[j].op \in {"step", "backward"} =>
                 \E c \in CallAt(opt) : c < j)
    /\ []((InStep /\ ~train) => \A j \in DOMAIN opt : opt[j].op = "call")

C16_Witness ==
    /\ train /\ pc = "wire" /\ u = 1
    /\ rt[CurKey].losses[LossKey(CurKey)] # None
    /\ Cardinality(OpsAt(opt, "step", LossKey(CurKey))) = 1
    /\ Cardinality(OpsAt(opt, "backward", LossKey(CurKey))) = 1

\* The gradient of a resource was zeroed and differentiation enabled on
\* it before the call of the iteration logged in o.
Prepared(o, net) ==
    /\ \E z \in OpsAt(o, "zero_grad", net) : \A c \in CallAt(o) : z < c
    /\ \E r \in OpsAt(o, "requires_grad", net) : \A c \in CallAt(o) : r < c

\* The original statement of C17: in training every optimizer step of an
\* iteration is preceded, in that iteration and before the call, by the
\* zeroing of that resource's gradient and the enabling of differentiation.
C17_Original ==
    (InStep /\ train) =>
        \A net \in Resources : OpsAt(opt, "step", net) # {} => Prepared(opt, net)

\* C17 as amended: in training an optimizer step of an iteration is
\* preceded, in that iteration and before the call, by the zeroing of the
\* resource's gradient and the enabling of differentiation exactly when
\* the resource was in the routine's trained-resources list at the start
\* of the iteration; zeroing and enabling never come after the call.
C17_StepPreparedWhenListed ==
    /\ [][(pc = "post" /\ train) =>
             \A net \in Resources :
                OpsAt(opt', "step", net) # {} =>
                   (Prepared(opt', net) <=> net \in Range(rt[CurKey].training_nets))
         ]_vars
    /\ [](\A j \in DOMAIN opt :
             opt[j].op \in {"zero_grad", "requires_grad"} =>
                 \A c \in CallAt(opt) : j < c)

C17_Witness ==
    /\ train /\ pc = "merge" /\ u = 1 /\ steps = 1
    /\ opt = << [op |-> "zero_grad", net |-> "enc"], [op |-> "requires_grad", net |-> "enc"],
               [op |-> "call", net |-> "enc"],
               [op |-> "backward", net |-> "enc"], [op |-> "step", net |-> "enc"] >>

\* The fetches the repeat loops of positions 1..r add to the first one.
RECURSIVE ExtraFetches(_)
ExtraFetches(r) ==
    IF r = 0 THEN 0
    ELSE ExtraFetches(r - 1) + (IF train THEN updates[r] - 1 ELSE 0)

\* C18: a step advances the data source once on entry and once more at
\* the start of every training iteration after the first of a routine, and
\* nowhere else: a completed evaluation step has advanced it once, a
\* completed training step 1 + the sum of (repeat-count - 1) times.
C18_DataSourceAdvances ==
    /\ [][IF pc = "idle" /\ pc' = "wire"
          THEN dataPos' = dataPos + 1 /\ fetched' = 1
          ELSE /\ dataPos' - dataPos = fetched' - fetched
               /\ dataPos' = dataPos + (IF pc = "wire" /\ train /\ u > 0 THEN 1 ELSE 0)
         ]_vars
    /\ []((InStep /\ pc = "idle") => fetched = 1 + ExtraFetches(Len(procedure)))
    /\ []((InStep /\ pc \in {"invoke", "post", "merge"}) =>
             fetched = 1 + ExtraFetches(ri - 1) + u)

C18_Witness ==
    /\ InStep /\ train /\ pc = "idle"
    /\ Len(procedure) = MaxProc
    /\ \A r \in DOMAIN updates : updates[r] = MaxUpdate
    /\ fetched = 1 + MaxProc * (MaxUpdate - 1)
    /\ dataPos >= fetched

\* The losses the final iteration of the current routine left.
NullLosses == {k \in DOMAIN rt[CurKey].losses : rt[CurKey].losses[k] = None}

\* C19: when the final iteration of a routine left a null loss, the merge
\* still completes without error: nothing is appended for the null loss,
\* the other losses, the results and the elapsed time are appended.
C19_Original ==
    [][(pc = "merge" /\ NullLosses # {}) =>
          /\ pc' \in {"wire", "idle"}
          /\ err' = err
          /\ results'.time = update_dict_of_lists(results.time, [k \in {CurKey} |-> Elapsed])
          /\ results'.general = update_dict_of_lists(results.general, rt[CurKey].results)
          /\ results'.losses =
                update_dict_of_lists(results.losses,
                    [k \in DOMAIN rt[CurKey].losses \ NullLosses |-> rt[CurKey].losses[k]])
      ]_vars

\* The length of the history of a key, 0 when it has none.
HistLen(d, k) == IF k \in DOMAIN d THEN Len(d[k]) ELSE 0

\* C20: a merge appends one value to the time history of the routine key
\* and one value to the history of each loss key of the routine, the loss
\* of the final iteration of this step, and touches no other history;
\* nothing but a merge appends; so a completed step has added, for every
\* scheduled routine, one time and one loss, that of its final iteration.
C20_OneMergePerRoutine ==
    /\ [][(pc = "merge" /\ pc' # "raised") =>
             /\ \A k \in DOMAIN results.time \cup DOMAIN results'.time \cup {CurKey} :
                   HistLen(results'.time, k) =
                      HistLen(results.time, k) + (IF k = CurKey THEN 1 ELSE 0)
             /\ \A k \in DOMAIN results.losses \cup DOMAIN results'.losses
                          \cup DOMAIN rt[CurKey].losses :
                   /\ HistLen(results'.losses, k) =
                         HistLen(results.losses, k)
                            + (IF k \in DOMAIN rt[CurKey].losses THEN 1 ELSE 0)
                   /\ k \in DOMAIN rt[CurKey].losses =>
                         results'.losses[k][Len(results'.losses[k])]
                            = Scalar(steps, CurCount)
         ]_vars
    /\ [][pc # "merge" => (results' = results \/ results' = FreshResults)]_vars
    /\ []((InStep /\ pc = "idle" /\ results.time # EmptyMap) =>
             \A r \in DOMAIN procedure :
                LET key == procedure[r]
                    hist == results.losses[LossKey(key)]
                IN  /\ Len(results.time[key]) = Len(hist)
                    /\ Len(hist) <= steps
                    /\ hist[Len(hist)] =
                          Scalar(steps, IF train THEN updates[r] ELSE 1)
                    /\ \A i \in 1..(Len(hist) - 1) : StepOf(hist[i]) < steps)

C20_Witness ==
    /\ InStep /\ train /\ pc = "idle" /\ steps = 2
    /\ procedure = <<"enc", "dec">>
    /\ updates[2] = MaxUpdate
    /\ Len(results.time["dec"]) = 2
    /\ results.losses["dec"][2] = Scalar(2, MaxUpdate)
    /\ StepOf(results.losses["dec"][1]) = 1

====
